---- MODULE Spec2Model ----
(***************************************************************************)
(* postmorty: the indicator calculation engine                             *)
(* (src/postmorty/core/calc_indicators.py, IndicatorCalculator) as a state *)
(* machine.  One call of calculate_all is a run through the stages of the  *)
(* pipeline; each stage is one action.                                     *)
(*                                                                         *)
(* Numbers.  The program computes in IEEE doubles.  The model computes in  *)
(* exact rationals over integer-valued prices: a value is a record         *)
(* [n |-> signed integer, d |-> natural], read n/d; d = 0 encodes the      *)
(* non-finite doubles (n > 0: +inf, n < 0: -inf, n = 0: NaN, which is also *)
(* pandas' null).  Integers are arbitrary precision: little-endian         *)
(* sequences of limbs in base 10^4, since the recurrences' denominators    *)
(* ((span+1)^i, 4^i) outgrow machine integers after a few bars.            *)
(***************************************************************************)
EXTENDS Integers, Sequences, FiniteSets, TLC

\* ------------------------------------------------------------------------
\* Naturals of arbitrary size: <<>> is 0, least significant limb first,
\* no leading (last) zero limb.
Base == 10^4

RECURSIVE NOfInt(_)
NOfInt(k) == IF k = 0 THEN <<>> ELSE <<k % Base>> \o NOfInt(k \div Base)

RECURSIVE NNorm(_)
NNorm(a) ==
  IF a = <<>> THEN a
  ELSE IF a[Len(a)] = 0 THEN NNorm(SubSeq(a, 1, Len(a) - 1)) ELSE a

NHead(a) == IF a = <<>> THEN 0 ELSE Head(a)
NTail(a) == IF a = <<>> THEN <<>> ELSE Tail(a)

RECURSIVE NAddC(_, _, _)
NAddC(a, b, c) ==
  IF a = <<>> /\ b = <<>> THEN (IF c = 0 THEN <<>> ELSE <<c>>)
  ELSE LET s == NHead(a) + NHead(b) + c
       IN  <<s % Base>> \o NAddC(NTail(a), NTail(b), s \div Base)

NAdd(a, b) == NAddC(a, b, 0)

\* a - b - c for a >= b + c
RECURSIVE NSubC(_, _, _)
NSubC(a, b, c) ==
  IF a = <<>> THEN <<>>
  ELSE LET s == Head(a) - NHead(b) - c
       IN  IF s < 0 THEN <<s + Base>> \o NSubC(Tail(a), NTail(b), 1)
                    ELSE <<s>> \o NSubC(Tail(a), NTail(b), 0)

NSub(a, b) == NNorm(NSubC(a, b, 0))

\* -1, 0, 1 as a < b, a = b, a > b
RECURSIVE NCmpTop(_, _, _)
NCmpTop(a, b, i) ==
  IF i = 0 THEN 0
  ELSE IF a[i] < b[i] THEN -1
  ELSE IF a[i] > b[i] THEN 1
  ELSE NCmpTop(a, b, i - 1)

NCmp(a, b) ==
  IF Len(a) < Len(b) THEN -1
  ELSE IF Len(a) > Len(b) THEN 1
  ELSE NCmpTop(a, b, Len(a))

\* a * k + c for a machine integer 0 <= k < Base
RECURSIVE NMulSmallC(_, _, _)
NMulSmallC(a, k, c) ==
  IF a = <<>> THEN NOfInt(c)
  ELSE LET s == Head(a) * k + c
       IN  <<s % Base>> \o NMulSmallC(Tail(a), k, s \div Base)

NMulSmall(a, k) == IF k = 0 THEN <<>> ELSE NMulSmallC(a, k, 0)

\* a * b, by the limbs of b
RECURSIVE NMulBy(_, _)
NMulBy(a, b) ==
  IF b = <<>> \/ a = <<>> THEN <<>>
  ELSE LET rest == NMulBy(a, Tail(b))
       IN  NAdd(NMulSmall(a, Head(b)), IF rest = <<>> THEN <<>> ELSE <<0>> \o rest)

NMul(a, b) == IF Len(b) > Len(a) THEN NMulBy(b, a) ELSE NMulBy(a, b)

\* [q, r]: a = q * k + r, for a machine integer 0 < k < Base
RECURSIVE NDivRem(_, _)
NDivRem(a, k) ==
  IF a = <<>> THEN [q |-> <<>>, r |-> 0]
  ELSE LET hi  == NDivRem(Tail(a), k)
           cur == hi.r * Base + Head(a)
       IN  [q |-> <<cur \div k>> \o hi.q, r |-> cur % k]

NDivSmall(a, k) == NNorm(NDivRem(a, k).q)

RECURSIVE NPow(_, _)
NPow(k, e) == IF e = 0 THEN <<1>> ELSE NMulSmall(NPow(k, e - 1), k)

\* ------------------------------------------------------------------------
\* Signed integers: [neg, mag], zero is never negative.
ZMake(neg, mag) == [neg |-> neg /\ mag # <<>>, mag |-> mag]
ZOfInt(k) == IF k < 0 THEN ZMake(TRUE, NOfInt(-k)) ELSE ZMake(FALSE, NOfInt(k))
ZOfN(a) == ZMake(FALSE, a)
Z0 == ZOfInt(0)
ZNeg(x) == ZMake(~x.neg, x.mag)
ZSign(x) == IF x.mag = <<>> THEN 0 ELSE IF x.neg THEN -1 ELSE 1
ZAbs(x) == ZMake(FALSE, x.mag)

ZAdd(x, y) ==
  IF x.neg = y.neg THEN ZMake(x.neg, NAdd(x.mag, y.mag))
  ELSE IF NCmp(x.mag, y.mag) >= 0 THEN ZMake(x.neg, NSub(x.mag, y.mag))
  ELSE ZMake(y.neg, NSub(y.mag, x.mag))

ZSub(x, y) == ZAdd(x, ZNeg(y))

ZCmp(x, y) ==
  IF x.neg /\ ~y.neg THEN -1
  ELSE IF ~x.neg /\ y.neg THEN 1
  ELSE IF x.neg THEN NCmp(y.mag, x.mag)
  ELSE NCmp(x.mag, y.mag)

\* x * k for a machine integer k, |k| < Base
ZMulSmall(x, k) ==
  IF k < 0 THEN ZMake(~x.neg, NMulSmall(x.mag, -k))
  ELSE ZMake(x.neg, NMulSmall(x.mag, k))

ZMulN(x, a) == ZMake(x.neg, NMul(x.mag, a))
ZDivSmall(x, k) == ZMake(x.neg, NDivSmall(x.mag, k))
Max2(a, b) == IF a >= b THEN a ELSE b
Min2(a, b) == IF a <= b THEN a ELSE b
Abs(a) == IF a < 0 THEN -a ELSE a

\* ------------------------------------------------------------------------
\* Extended rationals n/d: the model's doubles.
QMake(n, d) == IF d = <<>> THEN [n |-> ZOfInt(ZSign(n)), d |-> d] ELSE [n |-> n, d |-> d]
QOfInt(k) == [n |-> ZOfInt(k), d |-> <<1>>]
NaN == [n |-> Z0, d |-> <<>>]
IsNaN(q) == q.d = <<>> /\ q.n.mag = <<>>
IsFinite(q) == q.d # <<>>

QAdd(a, b) ==
  IF a.d = b.d THEN QMake(ZAdd(a.n, b.n), a.d)
  ELSE QMake(ZAdd(ZMulN(a.n, b.d), ZMulN(b.n, a.d)), NMul(a.d, b.d))

QNeg(a) == [n |-> ZNeg(a.n), d |-> a.d]
QSub(a, b) == QAdd(a, QNeg(b))
QMulInt(a, k) == QMake(ZMulSmall(a.n, k), a.d)

\* a / b; a zero divisor gives +inf, -inf or NaN as IEEE division does
QDiv(a, b) ==
  LET sgn(z) == IF b.n.neg THEN ZNeg(z) ELSE z
  IN  IF a.d = b.d /\ a.d # <<>> THEN QMake(sgn(a.n), b.n.mag)
      ELSE QMake(sgn(ZMulN(a.n, b.d)), NMul(a.d, b.n.mag))

\* -1, 0, 1 for two values that are not NaN
QCmp(a, b) ==
  IF a.d = b.d THEN ZCmp(a.n, b.n)
  ELSE ZCmp(ZMulN(a.n, b.d), ZMulN(b.n, a.d))

\* The comparisons of doubles: every comparison with NaN is false.
QLt(a, b) == ~IsNaN(a) /\ ~IsNaN(b) /\ QCmp(a, b) < 0
QGt(a, b) == ~IsNaN(a) /\ ~IsNaN(b) /\ QCmp(a, b) > 0
QEq(a, b) == ~IsNaN(a) /\ ~IsNaN(b) /\ QCmp(a, b) = 0

\* ------------------------------------------------------------------------
\* Bounds of the inputs.
MaxLen == 3
MaxRun == 17
MaxBars == 21

Calls == {1, 2}
AfterSupertrend == {"td", "candle", "distance", "streaks", "done"}

VARIABLES
  records,  \* records[c]: the bars call c of calculate_all is given, in caller order
  pc,       \* pc[c]: "idle", the stage call c runs next, or "done" (returned)
  df,       \* df[c]: the DataFrame of call c, a function from column names to columns
  bands,    \* bands[c]: the locals of call c's _calculate_supertrend, once it ran
  unit,     \* a direct call of _calculate_streak(close, reference) and its result
  order,    \* order[r]: the arrangement sort_values gave batch r, once it sorted r
  processed, \* processed[c]: what calculate_indicators returned for call c, once it did
  scan,      \* a run of Scanner.scan: the stored rows and what the strategy was passed
  ticker,    \* a call of process_ticker_data: its connection, transaction and candles_d1
  ingest     \* a run of ingest_batch: its symbols, what was stored and success_count

vars == <<records, pc, df, bands, unit, order, processed, scan, ticker, ingest>>

Bar(ts, o, h, l, c) ==
  [timestamp |-> ts, open |-> o, high |-> h, low |-> l, close |-> c, volume |-> 1000]
Flat(ts, p) == Bar(ts, p, p, p, p)

Col(d, name) == d[name]
HasCol(d, name) == name \in DOMAIN d
SetCol(d, name, col) == (name :> col) @@ d
Rows(d) == IF HasCol(d, "close") THEN Len(d["close"]) ELSE 0
EmptyFrame == <<>>

\* ------------------------------------------------------------------------
\* calculate_all, lines 41-43: DataFrame(records), sort_values("timestamp"),
\* reset_index(drop=True).
RawColumns == {"timestamp", "open", "high", "low", "close", "volume"}
DataFrame(rows) == [f \in RawColumns |-> [i \in 1..Len(rows) |-> rows[i][f]]]

InsertAt(s, p, x) == SubSeq(s, 1, p - 1) \o <<x>> \o SubSeq(s, p, Len(s))

\* mutant: the rows are taken in the caller's order
sort_values_caller_order(r) == {r}

\* The arrangements of the rows in nondecreasing timestamp order.  The sort is
\* pandas' default (quicksort), which promises no order among rows of equal
\* timestamp: every order of such rows is a possible result.
RECURSIVE sort_values(_)
sort_values(r) ==
  IF r = <<>> THEN {<<>>}
  ELSE LET x == r[Len(r)]
       IN  UNION { { InsertAt(s, p, x) :
                       p \in { q \in 1..(Len(s) + 1) :
                                 /\ \A j \in 1..(q - 1) : s[j].timestamp <= x.timestamp
                                 /\ \A j \in q..Len(s) : s[j].timestamp >= x.timestamp } } :
                   s \in sort_values(SubSeq(r, 1, Len(r) - 1)) }

\* mutant: rows of equal timestamp are arranged afresh at every call
sort_values_reset_index_unrepeatable(r, memo) == sort_values(r)

\* Line 43 as one call sees it.  The sort is a fixed algorithm: the order it
\* gives rows of equal timestamp is not promised, but a batch it has sorted
\* before is arranged the same way again.
sort_values_reset_index(r, memo) ==
  IF r \in DOMAIN memo THEN {memo[r]} ELSE sort_values(r)

\* ------------------------------------------------------------------------
\* Series.ewm(alpha = a/b, adjust=False).mean() of an integer series x:
\* y[1] = x[1], y[i] = (a*x[i] + (b-a)*y[i-1]) / b, as numerators over b^(n-1).
RECURSIVE EwmNum(_, _, _, _, _)
EwmNum(x, a, b, S, i) ==
  IF i = 0 THEN <<>>
  ELSE IF i = 1 THEN <<ZMulN(ZOfInt(x[1]), S)>>
  ELSE LET prev == EwmNum(x, a, b, S, i - 1)
       IN  Append(prev, ZDivSmall(ZAdd(ZMulN(ZOfInt(a * x[i]), S),
                                       ZMulSmall(prev[i - 1], b - a)), b))

ewm_mean(x, a, b) ==
  LET S == NPow(b, Len(x) - 1)
      num == EwmNum(x, a, b, S, Len(x))
  IN  [i \in 1..Len(x) |-> [n |-> num[i], d |-> S]]

\* mutant: Wilder's smoothing, alpha = 1/N
ewm_span_wilder(x, span) == ewm_mean(x, 1, span)

\* ewm(span=N): alpha = 2/(N+1)
ewm_span(x, span) == ewm_mean(x, 2, span + 1)

\* _calculate_emas
calculate_emas(d) ==
  LET close == Col(d, "close")
  IN  SetCol(SetCol(SetCol(SetCol(d,
        "ema_10", ewm_span(close, 10)),
        "ema_36", ewm_span(close, 36)),
        "ema_100", ewm_span(close, 100)),
        "ema_200", ewm_span(close, 200))

\* ------------------------------------------------------------------------
\* Series.rolling(window).mean() and .std() (sample variance, ddof = 1).
RECURSIVE SumFrom(_, _, _)
SumFrom(x, lo, hi) == IF lo > hi THEN 0 ELSE x[hi] + SumFrom(x, lo, hi - 1)

RECURSIVE SumSqFrom(_, _, _)
SumSqFrom(x, lo, hi) == IF lo > hi THEN 0 ELSE x[hi] * x[hi] + SumSqFrom(x, lo, hi - 1)

\* mutant: a shorter window while fewer values exist (min_periods = 1)
rolling_mean_min_periods_1(x, window) ==
  [i \in 1..Len(x) |->
     IF i < window THEN [n |-> ZOfInt(SumFrom(x, 1, i)), d |-> NOfInt(i)]
     ELSE [n |-> ZOfInt(SumFrom(x, i - window + 1, i)), d |-> NOfInt(window)]]

rolling_mean(x, window) ==
  [i \in 1..Len(x) |->
     IF i < window THEN NaN
     ELSE [n |-> ZOfInt(SumFrom(x, i - window + 1, i)), d |-> NOfInt(window)]]

\* the variance under the root of rolling(window).std()
rolling_var(x, window) ==
  [i \in 1..Len(x) |->
     IF i < window THEN NaN
     ELSE LET sm == SumFrom(x, i - window + 1, i)
              sq == SumSqFrom(x, i - window + 1, i)
          IN  [n |-> ZSub(ZMulSmall(ZOfInt(sq), window), ZMulN(ZOfInt(sm), NOfInt(sm))),
               d |-> NOfInt(window * (window - 1))]]

\* basis + k * sqrt(var), kept as its terms (the root is irrational in general)
Surd(basis, k, var) == [basis |-> basis, k |-> k, var |-> var]

\* mutant: the rows without a basis are dropped (dropna)
calculate_bollinger_bands_dropna(d) ==
  LET close == Col(d, "close")
      basis == rolling_mean(close, 20)
      var   == rolling_var(close, 20)
      full  == SetCol(SetCol(SetCol(d,
                 "bb_basis_20", basis),
                 "bb_upper_20", [i \in 1..Len(close) |-> Surd(basis[i], 2, var[i])]),
                 "bb_lower_20", [i \in 1..Len(close) |-> Surd(basis[i], -2, var[i])])
  IN  [name \in DOMAIN full |-> SubSeq(full[name], 20, Len(close))]

\* _calculate_bollinger_bands
calculate_bollinger_bands(d) ==
  LET close == Col(d, "close")
      basis == rolling_mean(close, 20)
      var   == rolling_var(close, 20)
  IN  SetCol(SetCol(SetCol(d,
        "bb_basis_20", basis),
        "bb_upper_20", [i \in 1..Len(close) |-> Surd(basis[i], 2, var[i])]),
        "bb_lower_20", [i \in 1..Len(close) |-> Surd(basis[i], -2, var[i])])

\* ------------------------------------------------------------------------
\* _calculate_rsi.  delta[1] is NaN; where(cond, 0.0) puts 0.0 wherever the
\* condition is false, NaN > 0 included, so gain and loss start with 0.0 and
\* hold no NaN.  min_periods masks the values with fewer observations.
Gain(close) ==
  [i \in 1..Len(close) |->
     IF i > 1 /\ close[i] - close[i - 1] > 0 THEN close[i] - close[i - 1] ELSE 0]
Loss(close) ==
  [i \in 1..Len(close) |->
     IF i > 1 /\ close[i] - close[i - 1] < 0 THEN close[i - 1] - close[i] ELSE 0]

ewm_alpha_min_periods(x, period) ==
  LET y == ewm_mean(x, 1, period)
  IN  [i \in 1..Len(x) |-> IF i < period THEN NaN ELSE y[i]]

\* mutant: the price changes are written over the close column
calculate_rsi_overwrites_close(d) ==
  LET close    == Col(d, "close")
      avg_gain == ewm_alpha_min_periods(Gain(close), 14)
      avg_loss == ewm_alpha_min_periods(Loss(close), 14)
      rs(i)    == QDiv(avg_gain[i], avg_loss[i])
  IN  SetCol(SetCol(d, "rsi_14",
        [i \in 1..Len(close) |->
           QSub(QOfInt(100), QDiv(QOfInt(100), QAdd(QOfInt(1), rs(i))))]),
        "close", [i \in 1..Len(close) |-> Gain(close)[i] - Loss(close)[i]])

calculate_rsi(d) ==
  LET close    == Col(d, "close")
      avg_gain == ewm_alpha_min_periods(Gain(close), 14)
      avg_loss == ewm_alpha_min_periods(Loss(close), 14)
      rs(i)    == QDiv(avg_gain[i], avg_loss[i])
  IN  SetCol(d, "rsi_14",
        [i \in 1..Len(close) |->
           QSub(QOfInt(100), QDiv(QOfInt(100), QAdd(QOfInt(1), rs(i))))])

\* ------------------------------------------------------------------------
\* mutant: the missing previous close of the first bar counts as 0
true_range_fill_zero(high, low, close) ==
  [i \in 1..Len(close) |->
     LET prev == IF i = 1 THEN 0 ELSE close[i - 1]
     IN  Max2(high[i] - low[i], Max2(Abs(high[i] - prev), Abs(low[i] - prev)))]

\* _calculate_atr: the true range and its ewm(span=period).  On the first bar
\* close.shift(1) is NaN and max(axis=1) skips NaN: TR = high - low.
true_range(high, low, close) ==
  [i \in 1..Len(close) |->
     IF i = 1 THEN high[i] - low[i]
     ELSE Max2(high[i] - low[i],
               Max2(Abs(high[i] - close[i - 1]), Abs(low[i] - close[i - 1])))]

calculate_atr(d, period) ==
  ewm_span(true_range(Col(d, "high"), Col(d, "low"), Col(d, "close")), period)

\* mutant: the lower band is not carried, it is the raw band of every bar
lower_band_next_not_carried(raw, prev_band, prev_close) == raw

\* _calculate_supertrend, lines 119-123: the lower band of bar i
lower_band_next(raw, prev_band, prev_close) ==
  IF QGt(raw, prev_band) \/ QLt(QOfInt(prev_close), prev_band) THEN raw ELSE prev_band

\* lines 125-129: the upper band of bar i
upper_band_next(raw, prev_band, prev_close) ==
  IF QLt(raw, prev_band) \/ QGt(QOfInt(prev_close), prev_band) THEN raw ELSE prev_band

\* mutant: a close equal to the band flips the trend
trend_next_flip_on_tie(prev_supertrend, prev_upper, close_i, upper_i, lower_i) ==
  IF QEq(prev_supertrend, prev_upper)
  THEN IF ~QLt(QOfInt(close_i), upper_i)
       THEN [supertrend |-> lower_i, direction |-> 1]
       ELSE [supertrend |-> upper_i, direction |-> -1]
  ELSE IF ~QGt(QOfInt(close_i), lower_i)
       THEN [supertrend |-> upper_i, direction |-> -1]
       ELSE [supertrend |-> lower_i, direction |-> 1]

\* lines 131-145: supertrend and direction of bar i
trend_next(prev_supertrend, prev_upper, close_i, upper_i, lower_i) ==
  IF QEq(prev_supertrend, prev_upper)
  THEN IF QGt(QOfInt(close_i), upper_i)
       THEN [supertrend |-> lower_i, direction |-> 1]
       ELSE [supertrend |-> upper_i, direction |-> -1]
  ELSE IF QLt(QOfInt(close_i), lower_i)
       THEN [supertrend |-> upper_i, direction |-> -1]
       ELSE [supertrend |-> lower_i, direction |-> 1]

\* lines 114-117: the first bar
trend_first(upper_1) == [supertrend |-> upper_1, direction |-> -1]

\* mutant: bar i compares with the raw bands of bar i-1, not the final ones
RECURSIVE supertrend_loop_raw_prev(_, _, _, _)
supertrend_loop_raw_prev(close, upper_raw, lower_raw, i) ==
  IF i = 1
  THEN LET t == trend_first(upper_raw[1])
       IN  [upper_band |-> <<upper_raw[1]>>, lower_band |-> <<lower_raw[1]>>,
            supertrend |-> <<t.supertrend>>, direction |-> <<t.direction>>]
  ELSE LET p  == supertrend_loop_raw_prev(close, upper_raw, lower_raw, i - 1)
           lo == lower_band_next(lower_raw[i], lower_raw[i - 1], close[i - 1])
           up == upper_band_next(upper_raw[i], upper_raw[i - 1], close[i - 1])
           t  == trend_next(p.supertrend[i - 1], p.upper_band[i - 1], close[i], up, lo)
       IN  [upper_band |-> Append(p.upper_band, up),
            lower_band |-> Append(p.lower_band, lo),
            supertrend |-> Append(p.supertrend, t.supertrend),
            direction  |-> Append(p.direction, t.direction)]

\* lines 113-145: the loop over the first i bars; upper_band and lower_band are
\* overwritten in place, so bar i reads the final bands of bar i-1
RECURSIVE supertrend_loop(_, _, _, _)
supertrend_loop(close, upper_raw, lower_raw, i) ==
  IF i = 1
  THEN LET t == trend_first(upper_raw[1])
       IN  [upper_band |-> <<upper_raw[1]>>, lower_band |-> <<lower_raw[1]>>,
            supertrend |-> <<t.supertrend>>, direction |-> <<t.direction>>]
  ELSE LET p  == supertrend_loop(close, upper_raw, lower_raw, i - 1)
           lo == lower_band_next(lower_raw[i], p.lower_band[i - 1], close[i - 1])
           up == upper_band_next(upper_raw[i], p.upper_band[i - 1], close[i - 1])
           t  == trend_next(p.supertrend[i - 1], p.upper_band[i - 1], close[i], up, lo)
       IN  [upper_band |-> Append(p.upper_band, up),
            lower_band |-> Append(p.lower_band, lo),
            supertrend |-> Append(p.supertrend, t.supertrend),
            direction  |-> Append(p.direction, t.direction)]

\* lines 102-106: hl2 and the raw bands
raw_bands(d, period, multiplier) ==
  LET high == Col(d, "high")
      low  == Col(d, "low")
      atr  == calculate_atr(d, period)
      hl2  == [i \in 1..Len(high) |-> [n |-> ZOfInt(high[i] + low[i]), d |-> <<2>>]]
  IN  [upper |-> [i \in 1..Len(high) |-> QAdd(hl2[i], QMulInt(atr[i], multiplier))],
       lower |-> [i \in 1..Len(high) |-> QSub(hl2[i], QMulInt(atr[i], multiplier))]]

\* the locals of _calculate_supertrend(df, period=7, multiplier=3.0) on return
supertrend_locals(d) ==
  LET raw == raw_bands(d, 7, 3)
      run == supertrend_loop(Col(d, "close"), raw.upper, raw.lower, Rows(d))
  IN  [upper_raw |-> raw.upper, lower_raw |-> raw.lower,
       upper_band |-> run.upper_band, lower_band |-> run.lower_band,
       supertrend |-> run.supertrend, direction |-> run.direction]

\* lines 147-148
calculate_supertrend(d, loc) ==
  SetCol(SetCol(d, "supertrend_7_3", loc.supertrend),
         "supertrend_direction", loc.direction)

\* ------------------------------------------------------------------------
\* mutant: an equal close carries the count forward, as the streaks do
td_next_carry_on_tie(current_close, prev_close_4, prev_count) ==
  IF current_close > prev_close_4
  THEN (IF prev_count > 0 THEN Min2(prev_count + 1, 13) ELSE 1)
  ELSE IF current_close < prev_close_4
  THEN (IF prev_count < 0 THEN Max2(prev_count - 1, -13) ELSE -1)
  ELSE prev_count

\* mutant: the count is not clamped
td_next_unclamped(current_close, prev_close_4, prev_count) ==
  IF current_close > prev_close_4
  THEN (IF prev_count > 0 THEN prev_count + 1 ELSE 1)
  ELSE IF current_close < prev_close_4
  THEN (IF prev_count < 0 THEN prev_count - 1 ELSE -1)
  ELSE 0

\* _calculate_td_sequential, lines 171-185: the count of bar i
td_next(current_close, prev_close_4, prev_count) ==
  IF current_close > prev_close_4
  THEN (IF prev_count > 0 THEN Min2(prev_count + 1, 13) ELSE 1)
  ELSE IF current_close < prev_close_4
  THEN (IF prev_count < 0 THEN Max2(prev_count - 1, -13) ELSE -1)
  ELSE 0

\* lines 164-185: counts of the first i bars
RECURSIVE td_counts(_, _)
td_counts(close, i) ==
  IF i = 0 THEN <<>>
  ELSE LET prev == td_counts(close, i - 1)
       IN  IF i <= 4 THEN Append(prev, 0)
           ELSE Append(prev, td_next(close[i], close[i - 4], prev[i - 1]))

calculate_td_sequential(d) ==
  LET close == Col(d, "close")
  IN  IF Len(close) < 5
      THEN SetCol(d, "td_seq", [i \in 1..Len(close) |-> 0])
      ELSE SetCol(d, "td_seq", td_counts(close, Len(close)))

\* ------------------------------------------------------------------------
\* _calculate_candle_metrics and _calculate_distance_metrics
pct(num, den) == QMulInt(QDiv(num, den), 100)

calculate_candle_metrics(d) ==
  LET n == Rows(d)
  IN  SetCol(SetCol(d,
        "pct_body_range",
          [i \in 1..n |-> pct(QOfInt(d["close"][i] - d["open"][i]), QOfInt(d["open"][i]))]),
        "pct_full_range",
          [i \in 1..n |-> pct(QOfInt(d["high"][i] - d["low"][i]), QOfInt(d["low"][i]))])

pct_from(d, ref) ==
  [i \in 1..Rows(d) |-> pct(QSub(QOfInt(d["close"][i]), d[ref][i]), d[ref][i])]

calculate_distance_metrics(d) ==
  SetCol(SetCol(SetCol(SetCol(SetCol(d,
    "pct_from_ema_10", pct_from(d, "ema_10")),
    "pct_from_ema_36", pct_from(d, "ema_36")),
    "pct_from_ema_100", pct_from(d, "ema_100")),
    "pct_from_ema_200", pct_from(d, "ema_200")),
    "pct_from_bb_basis_20", pct_from(d, "bb_basis_20"))

\* ------------------------------------------------------------------------
\* mutant: a close equal to the reference resets the streak, as TD Sequential does
streak_next_reset_on_tie(i, close_val, ref_val, prev_streak) ==
  IF IsNaN(ref_val) THEN 0
  ELSE IF i = 1
  THEN IF QGt(QOfInt(close_val), ref_val) THEN 1
       ELSE IF QLt(QOfInt(close_val), ref_val) THEN -1
       ELSE 0
  ELSE IF QGt(QOfInt(close_val), ref_val)
       THEN (IF prev_streak > 0 THEN prev_streak + 1 ELSE 1)
       ELSE IF QLt(QOfInt(close_val), ref_val)
       THEN (IF prev_streak < 0 THEN prev_streak - 1 ELSE -1)
       ELSE 0

\* mutant: the streak is clamped to -13..13, as TD Sequential is
streak_next_clamped(i, close_val, ref_val, prev_streak) ==
  IF IsNaN(ref_val) THEN 0
  ELSE IF i = 1
  THEN IF QGt(QOfInt(close_val), ref_val) THEN 1
       ELSE IF QLt(QOfInt(close_val), ref_val) THEN -1
       ELSE 0
  ELSE IF QGt(QOfInt(close_val), ref_val)
       THEN (IF prev_streak > 0 THEN Min2(prev_streak + 1, 13) ELSE 1)
       ELSE IF QLt(QOfInt(close_val), ref_val)
       THEN (IF prev_streak < 0 THEN Max2(prev_streak - 1, -13) ELSE -1)
       ELSE prev_streak

\* mutant: an undefined reference carries the streak forward
streak_next_inherit_on_nan(i, close_val, ref_val, prev_streak) ==
  IF IsNaN(ref_val) THEN prev_streak
  ELSE IF i = 1
  THEN IF QGt(QOfInt(close_val), ref_val) THEN 1
       ELSE IF QLt(QOfInt(close_val), ref_val) THEN -1
       ELSE 0
  ELSE IF QGt(QOfInt(close_val), ref_val)
       THEN (IF prev_streak > 0 THEN prev_streak + 1 ELSE 1)
       ELSE IF QLt(QOfInt(close_val), ref_val)
       THEN (IF prev_streak < 0 THEN prev_streak - 1 ELSE -1)
       ELSE prev_streak

\* mutant: a first close equal to its reference counts as above it
streak_next_first_tie_above(i, close_val, ref_val, prev_streak) ==
  IF IsNaN(ref_val) THEN 0
  ELSE IF i = 1
  THEN IF ~QLt(QOfInt(close_val), ref_val) THEN 1 ELSE -1
  ELSE IF QGt(QOfInt(close_val), ref_val)
       THEN (IF prev_streak > 0 THEN prev_streak + 1 ELSE 1)
       ELSE IF QLt(QOfInt(close_val), ref_val)
       THEN (IF prev_streak < 0 THEN prev_streak - 1 ELSE -1)
       ELSE prev_streak

\* _calculate_streak, lines 248-279: the streak of bar i (index i-1 in the
\* source), given the streak of the bar before
streak_next(i, close_val, ref_val, prev_streak) ==
  IF IsNaN(ref_val) THEN 0
  ELSE IF i = 1
  THEN IF QGt(QOfInt(close_val), ref_val) THEN 1
       ELSE IF QLt(QOfInt(close_val), ref_val) THEN -1
       ELSE 0
  ELSE IF QGt(QOfInt(close_val), ref_val)
       THEN (IF prev_streak > 0 THEN prev_streak + 1 ELSE 1)
       ELSE IF QLt(QOfInt(close_val), ref_val)
       THEN (IF prev_streak < 0 THEN prev_streak - 1 ELSE -1)
       ELSE prev_streak

RECURSIVE streak_upto(_, _, _)
streak_upto(close, reference, i) ==
  IF i = 0 THEN <<>>
  ELSE LET prev == streak_upto(close, reference, i - 1)
       IN  Append(prev, streak_next(i, close[i], reference[i],
                                    IF i = 1 THEN 0 ELSE prev[i - 1]))

calculate_streak(close, reference) == streak_upto(close, reference, Len(close))

calculate_streaks(d) ==
  LET close == Col(d, "close")
  IN  SetCol(SetCol(SetCol(SetCol(d,
        "streak_bb_basis_20", calculate_streak(close, d["bb_basis_20"])),
        "streak_ema_36", calculate_streak(close, d["ema_36"])),
        "streak_ema_100", calculate_streak(close, d["ema_100"])),
        "streak_ema_200", calculate_streak(close, d["ema_200"]))

\* ------------------------------------------------------------------------
\* calculate_all, lines 37-55, as a function of the rows in the order the
\* sort left them: what a call returns when nothing else runs.
calculate_all(s) ==
  IF s = <<>> THEN EmptyFrame
  ELSE LET d == calculate_rsi(calculate_bollinger_bands(calculate_emas(DataFrame(s))))
       IN  calculate_streaks(calculate_distance_metrics(calculate_candle_metrics(
             calculate_td_sequential(calculate_supertrend(d, supertrend_locals(d))))))

\* ------------------------------------------------------------------------
\* processor.calculate_indicators, lines 28-32.  The columns of doubles the
\* engine computes hold rationals, +inf, -inf or NaN; bb_upper_20 and
\* bb_lower_20 hold surds, NaN where their basis is.
None == [none |-> TRUE]

FloatColumns ==
  {"ema_10", "ema_36", "ema_100", "ema_200", "bb_basis_20", "rsi_14",
   "supertrend_7_3", "pct_body_range", "pct_full_range", "pct_from_ema_10",
   "pct_from_ema_36", "pct_from_ema_100", "pct_from_ema_200", "pct_from_bb_basis_20"}
SurdColumns == {"bb_upper_20", "bb_lower_20"}

isna(name, v) ==
  \/ name \in FloatColumns /\ IsNaN(v)
  \/ name \in SurdColumns /\ IsNaN(v.basis)

\* df.replace({np.nan: None}), line 29
replace(d) ==
  [name \in DOMAIN d |->
     [i \in 1..Rows(d) |-> IF isna(name, d[name][i]) THEN None ELSE d[name][i]]]

\* df.to_dict(orient="records"), line 32
to_dict(d) == [i \in 1..Rows(d) |-> [name \in DOMAIN d |-> d[name][i]]]

NotReturned == [returned |-> FALSE, rows |-> <<>>]

\* ------------------------------------------------------------------------
\* The inputs.  Short batches over a few candles, in ascending date order;
\* pairs of calls, the first on a short batch in ascending date order and the
\* second on any reordering of it; pairs of calls on the same short batch over
\* two dates in any order, so that dates repeat; long batches whose closes
\* walk from 100 in up to three runs of constant slope; the batches the
\* specification quotes, and one that takes every branch of the trend-flip
\* rule.
Prices == {10, 12, 47}
Candles ==
  { [open |-> p, high |-> p, low |-> p, close |-> p] : p \in Prices }
    \cup { [open |-> 10, high |-> 12, low |-> 10, close |-> 12],
           [open |-> 12, high |-> 12, low |-> 10, close |-> 10] }

SeqsUpTo(S, n) == UNION { [1..k -> S] : k \in 0..n }

ShortInputs ==
  { [i \in 1..Len(s) |-> Bar(i, s[i].open, s[i].high, s[i].low, s[i].close)] :
      s \in SeqsUpTo(Candles, MaxLen) }

AnyOrderInputs ==
  SeqsUpTo({ Flat(1, 10), Flat(1, 20), Flat(2, 10) }, MaxLen)

FlatBars(closes) == [i \in 1..Len(closes) |-> Flat(i, closes[i])]

AscendingInputs == { FlatBars(cl) : cl \in SeqsUpTo({10, 20}, MaxLen) }

DistinctDates(r) ==
  \A i, j \in 1..Len(r) : i # j => r[i].timestamp # r[j].timestamp

Reorderings(r) ==
  { [i \in 1..Len(r) |-> r[f[i]]] :
      f \in { g \in [1..Len(r) -> 1..Len(r)] :
                \A i, j \in 1..Len(r) : i # j => g[i] # g[j] } }

Slopes == {-1, 0, 1}
SegLens == {0, 1, 2, MaxRun}
Rep(v, k) == [i \in 1..k |-> v]
DeltaSeqs ==
  { Rep(a[1], k[1]) \o Rep(a[2], k[2]) \o Rep(a[3], k[3]) :
      a \in Slopes \X Slopes \X Slopes,
      k \in { kk \in SegLens \X SegLens \X SegLens : kk[1] + kk[2] + kk[3] < MaxBars } }

RECURSIVE Walk(_, _, _)
Walk(base, deltas, i) ==
  IF i = 0 THEN <<base>>
  ELSE LET w == Walk(base, deltas, i - 1) IN Append(w, w[i] + deltas[i])

LongInputs == { FlatBars(Walk(100, dl, Len(dl))) : dl \in DeltaSeqs }

Examples ==
  { FlatBars(<<10, 10, 10, 10, 11, 10>>), FlatBars(<<10, 12, 11>>),
    FlatBars(<<10, 10, 18, 12, 10>>) }

\* bars of price 0: a zero open and low under a positive close, a bar of
\* zeros, and twenty flat bars at 0, which make the Bollinger basis 0
DegenerateInputs ==
  { <<Bar(1, 0, 10, 0, 10)>>, <<Flat(1, 0)>>, <<Flat(1, 10), Bar(2, 0, 10, 0, 10)>>,
    FlatBars(Rep(0, 20)) }

InputPairs ==
  { <<r, <<>>>> : r \in ShortInputs \cup LongInputs \cup Examples \cup DegenerateInputs }
    \cup UNION { { <<r, q>> : q \in Reorderings(r) } : r \in AscendingInputs }
    \cup { <<r, r>> : r \in AnyOrderInputs }

\* The arguments of a direct call of _calculate_streak: closes and reference
\* values of up to MaxLen bars, the reference undefined (NaN) anywhere.
UnitInputs ==
  UNION { { [close |-> cl, reference |-> rf, streaks |-> <<>>, pc |-> "idle"] :
              cl \in [1..k -> {10, 12}],
              rf \in [1..k -> {NaN, QOfInt(10), QOfInt(11)}] } : k \in 1..MaxLen }
NoUnit == [close |-> <<>>, reference |-> <<>>, streaks |-> <<>>, pc |-> "none"]

\* ------------------------------------------------------------------------
\* Scanner.scan.  candles_d1 holds, for each symbol of the universe, rows
\* keyed by timestamp; a row stands here for its timestamp.  The strategy's
\* scoring of the row it takes as current is left out: the model keeps the
\* rows analyze was passed and the row it took.
MaxStored == 62
Symbols == <<"AAA", "BBB">>
StoredCounts == {0, 1, 49, 50, 60, 61, MaxStored}

RECURSIVE Ascend(_)
Ascend(S) ==
  IF S = {} THEN <<>>
  ELSE LET t == CHOOSE x \in S : \A y \in S : x <= y IN <<t>> \o Ascend(S \ {t})

\* SELECT * FROM candles_d1 WHERE symbol = %s ORDER BY timestamp ASC LIMIT 60
fetch_candles(stored) ==
  LET asc == Ascend(stored) IN SubSeq(asc, 1, Min2(60, Len(asc)))

\* ExponentialBreakout.analyze, lines 7-11: fewer than 50 rows give an empty
\* result; otherwise the last row passed is the current bar (0: none taken)
analyze_curr(rows) == IF Len(rows) < 50 THEN 0 ELSE rows[Len(rows)]

ScanInputs ==
  { [stored |-> [k \in 1..Len(Symbols) |-> 1..n[k]], i |-> 1,
     passed |-> [k \in 1..Len(Symbols) |-> <<>>],
     curr |-> [k \in 1..Len(Symbols) |-> 0], pc |-> "scanning"] :
      n \in [1..Len(Symbols) -> StoredCounts] }
NoScan ==
  [stored |-> <<>>, i |-> 1, passed |-> <<>>, curr |-> <<>>, pc |-> "none"]

\* ------------------------------------------------------------------------
\* process_ticker_data(symbol).  ohlcv_daily holds the symbol's raw rows and
\* candles_d1 its enriched rows, both keyed by (symbol, timestamp): a row
\* stands here for its timestamp, and a row of candles_d1 also for whether
\* this call wrote it ("new") or it was there before ("old").
\* calculate_indicators gives one record per raw row, with its timestamp.
\* The calls in the try block may raise; rollback and close complete.
MaxRows == 3
TickerInputs ==
  { [pc |-> "connect", conn |-> "none", raw |-> Ascend(1..n), recs |-> <<>>,
     i |-> 1, txn |-> {}, before |-> b, candles |-> b, raised |-> "no",
     commits |-> 0, rolled_back |-> FALSE] :
      n \in 0..MaxRows, b \in SUBSET { <<ts, "old">> : ts \in 1..MaxRows } }
NoTicker ==
  [pc |-> "none", conn |-> "none", raw |-> <<>>, recs |-> <<>>, i |-> 1,
   txn |-> {}, before |-> {}, candles |-> {}, raised |-> "no", commits |-> 0,
   rolled_back |-> FALSE]

\* INSERT ... ON CONFLICT (symbol, timestamp) DO UPDATE, lines 62-104, for
\* the rows of a transaction, once they are committed
upsert(candles, rows) ==
  { r \in candles : r[1] \notin rows } \cup { <<ts, "new">> : ts \in rows }

\* ------------------------------------------------------------------------
\* ingest_batch.  What happens to each symbol of the batch inside
\* ingest_daily is an input: the fetch raises, returns no records, or returns
\* records, and then get_connection, an INSERT or the commit raises, or all
\* of them complete.
Outcomes ==
  {"fetch_raises", "no_data", "connect_raises", "execute_raises",
   "commit_raises", "ok"}
IngestInputs ==
  { [pc |-> "running", env |-> e, i |-> 1, success_count |-> 0,
     stored |-> {}, failed |-> {}] : e \in [1..Len(Symbols) -> Outcomes] }
NoIngest ==
  [pc |-> "none", env |-> <<>>, i |-> 1, success_count |-> 0, stored |-> {},
   failed |-> {}]

\* ingest_daily, lines 13-44: whether the symbol's records were stored and
\* committed, and whether an exception leaves the function
ingest_daily(outcome) ==
  IF outcome = "no_data"
  THEN [stored |-> FALSE, raised |-> FALSE]       \* lines 18-20
  ELSE IF outcome = "ok"
  THEN [stored |-> TRUE, raised |-> FALSE]        \* lines 22-41
  ELSE [stored |-> FALSE, raised |-> FALSE]       \* except Exception, lines 43-44

NoLocals ==
  [upper_raw |-> <<>>, lower_raw |-> <<>>, upper_band |-> <<>>, lower_band |-> <<>>,
   supertrend |-> <<>>, direction |-> <<>>]

Init == /\ \/ /\ records \in InputPairs /\ unit = NoUnit /\ scan = NoScan
              /\ ticker = NoTicker /\ ingest = NoIngest
           \/ /\ records = <<<<>>, <<>>>> /\ unit \in UnitInputs /\ scan = NoScan
              /\ ticker = NoTicker /\ ingest = NoIngest
           \/ /\ records = <<<<>>, <<>>>> /\ unit = NoUnit /\ scan \in ScanInputs
              /\ ticker = NoTicker /\ ingest = NoIngest
           \/ /\ records = <<<<>>, <<>>>> /\ unit = NoUnit /\ scan = NoScan
              /\ ticker \in TickerInputs /\ ingest = NoIngest
           \/ /\ records = <<<<>>, <<>>>> /\ unit = NoUnit /\ scan = NoScan
              /\ ticker = NoTicker /\ ingest \in IngestInputs
        /\ pc = [c \in Calls |-> "idle"]
        /\ df = [c \in Calls |-> EmptyFrame]
        /\ bands = [c \in Calls |-> NoLocals]
        /\ order = <<>>
        /\ processed = [c \in Calls |-> NotReturned]

\* ------------------------------------------------------------------------
\* calculate_indicators and the calculate_all it calls.  The calls run one
\* after the other.
Goto(c, stage) == pc' = [pc EXCEPT ![c] = stage]

\* lines 37-43
calculate_all_enter(c) ==
  /\ pc[c] = "idle"
  /\ unit.pc = "none" /\ scan.pc = "none"
  /\ ticker.pc = "none" /\ ingest.pc = "none"
  /\ \/ /\ records[c] = <<>>
        /\ df' = [df EXCEPT ![c] = EmptyFrame]
        /\ Goto(c, "done")
        /\ UNCHANGED order
     \/ /\ records[c] # <<>>
        /\ \E s \in sort_values_reset_index(records[c], order) :
             /\ df' = [df EXCEPT ![c] = DataFrame(s)]
             /\ order' = (records[c] :> s) @@ order
        /\ Goto(c, "emas")
  /\ UNCHANGED <<records, bands, unit, processed, scan, ticker, ingest>>

\* a call made once the calls before it returned
begin_call(c) ==
  /\ \A b \in Calls : b < c => processed[b].returned
  /\ calculate_all_enter(c)

\* mutant: the frame is kept on the calculator, where the call that entered
\* last overwrites it
stage_emas_shared_frame(c) ==
  /\ pc[c] = "emas"
  /\ LET o == CHOOSE b \in Calls : b # c
         shared == IF pc[o] \notin {"idle", "done"} THEN df[o] ELSE df[c]
     IN  df' = [df EXCEPT ![c] = calculate_emas(shared)]
  /\ Goto(c, "bollinger")
  /\ UNCHANGED <<records, bands, unit, order, processed, scan, ticker, ingest>>

\* line 46
stage_emas(c) ==
  /\ pc[c] = "emas"
  /\ df' = [df EXCEPT ![c] = calculate_emas(@)]
  /\ Goto(c, "bollinger")
  /\ UNCHANGED <<records, bands, unit, order, processed, scan, ticker, ingest>>

\* line 47
stage_bollinger_bands(c) ==
  /\ pc[c] = "bollinger"
  /\ df' = [df EXCEPT ![c] = calculate_bollinger_bands(@)]
  /\ Goto(c, "rsi")
  /\ UNCHANGED <<records, bands, unit, order, processed, scan, ticker, ingest>>

\* line 48
stage_rsi(c) ==
  /\ pc[c] = "rsi"
  /\ df' = [df EXCEPT ![c] = calculate_rsi(@)]
  /\ Goto(c, "supertrend")
  /\ UNCHANGED <<records, bands, unit, order, processed, scan, ticker, ingest>>

\* line 49
stage_supertrend(c) ==
  /\ pc[c] = "supertrend"
  /\ LET loc == supertrend_locals(df[c])
     IN  /\ bands' = [bands EXCEPT ![c] = loc]
         /\ df' = [df EXCEPT ![c] = calculate_supertrend(@, loc)]
  /\ Goto(c, "td")
  /\ UNCHANGED <<records, unit, order, processed, scan, ticker, ingest>>

\* line 50
stage_td_sequential(c) ==
  /\ pc[c] = "td"
  /\ df' = [df EXCEPT ![c] = calculate_td_sequential(@)]
  /\ Goto(c, "candle")
  /\ UNCHANGED <<records, bands, unit, order, processed, scan, ticker, ingest>>

\* line 51
stage_candle_metrics(c) ==
  /\ pc[c] = "candle"
  /\ df' = [df EXCEPT ![c] = calculate_candle_metrics(@)]
  /\ Goto(c, "distance")
  /\ UNCHANGED <<records, bands, unit, order, processed, scan, ticker, ingest>>

\* line 52
stage_distance_metrics(c) ==
  /\ pc[c] = "distance"
  /\ df' = [df EXCEPT ![c] = calculate_distance_metrics(@)]
  /\ Goto(c, "streaks")
  /\ UNCHANGED <<records, bands, unit, order, processed, scan, ticker, ingest>>

\* lines 53-55
stage_streaks(c) ==
  /\ pc[c] = "streaks"
  /\ df' = [df EXCEPT ![c] = calculate_streaks(@)]
  /\ Goto(c, "done")
  /\ UNCHANGED <<records, bands, unit, order, processed, scan, ticker, ingest>>

\* processor.calculate_indicators, lines 9-10 and 28-32: the list of records
\* the caller upserts
calculate_indicators_return(c) ==
  /\ pc[c] = "done"
  /\ ~processed[c].returned
  /\ processed' = [processed EXCEPT ![c] =
        [returned |-> TRUE,
         rows |-> IF records[c] = <<>> THEN <<>> ELSE to_dict(replace(df[c]))]]
  /\ UNCHANGED <<records, pc, df, bands, unit, order, scan, ticker, ingest>>

\* _calculate_streak called on its own
streak_call ==
  /\ unit.pc = "idle"
  /\ unit' = [unit EXCEPT !.streaks = calculate_streak(unit.close, unit.reference),
                          !.pc = "done"]
  /\ UNCHANGED <<records, pc, df, bands, order, processed, scan, ticker, ingest>>

\* Scanner.scan, lines 32-56: one turn of the loop over the symbols
scan_symbol ==
  /\ scan.pc = "scanning"
  /\ scan.i <= Len(Symbols)
  /\ LET rows == fetch_candles(scan.stored[scan.i])
     IN  \/ /\ rows = <<>>
            /\ scan' = [scan EXCEPT !.i = @ + 1]
         \/ /\ rows # <<>>
            /\ scan' = [scan EXCEPT !.i = @ + 1,
                                    !.passed[scan.i] = rows,
                                    !.curr[scan.i] = analyze_curr(rows)]
  /\ UNCHANGED <<records, pc, df, bands, unit, order, processed, ticker, ingest>>

\* lines 64-69
scan_return ==
  /\ scan.pc = "scanning"
  /\ scan.i > Len(Symbols)
  /\ scan' = [scan EXCEPT !.pc = "done"]
  /\ UNCHANGED <<records, pc, df, bands, unit, order, processed, ticker, ingest>>

\* ------------------------------------------------------------------------
\* process_ticker_data, lines 36-113

Raise(step) ==
  ticker' = [ticker EXCEPT !.pc = "except", !.raised = step]

\* lines 38-39
ticker_connect ==
  /\ ticker.pc = "connect"
  /\ \/ ticker' = [ticker EXCEPT !.pc = "fetch", !.conn = "open"]
     \/ Raise("connect")
  /\ UNCHANGED <<records, pc, df, bands, unit, order, processed, scan, ingest>>

\* lines 43-53: the SELECT, and the return when there is no raw data
ticker_fetch ==
  /\ ticker.pc = "fetch"
  /\ \/ ticker' = [ticker EXCEPT !.pc = IF ticker.raw = <<>> THEN "finally"
                                        ELSE "calculate"]
     \/ Raise("fetch")
  /\ UNCHANGED <<records, pc, df, bands, unit, order, processed, scan, ingest>>

\* line 57
ticker_calculate ==
  /\ ticker.pc = "calculate"
  /\ \/ ticker' = [ticker EXCEPT !.pc = "upsert", !.recs = ticker.raw, !.i = 1]
     \/ Raise("calculate")
  /\ UNCHANGED <<records, pc, df, bands, unit, order, processed, scan, ingest>>

\* mutant: the connection is in autocommit mode, every upsert is stored at once
ticker_upsert_autocommit ==
  /\ ticker.pc = "upsert"
  /\ ticker.i <= Len(ticker.recs)
  /\ \/ ticker' = [ticker EXCEPT !.i = @ + 1,
                                 !.candles = upsert(@, {ticker.recs[ticker.i]})]
     \/ Raise("upsert")
  /\ UNCHANGED <<records, pc, df, bands, unit, order, processed, scan, ingest>>

\* lines 61-104: one turn of the loop over processed_records
ticker_upsert ==
  /\ ticker.pc = "upsert"
  /\ ticker.i <= Len(ticker.recs)
  /\ \/ ticker' = [ticker EXCEPT !.i = @ + 1, !.txn = @ \cup {ticker.recs[ticker.i]}]
     \/ Raise("upsert")
  /\ UNCHANGED <<records, pc, df, bands, unit, order, processed, scan, ingest>>

\* line 106
ticker_commit ==
  /\ ticker.pc = "upsert"
  /\ ticker.i > Len(ticker.recs)
  /\ \/ ticker' = [ticker EXCEPT !.pc = "finally", !.txn = {},
                                 !.candles = upsert(@, ticker.txn),
                                 !.commits = @ + 1]
     \/ Raise("commit")
  /\ UNCHANGED <<records, pc, df, bands, unit, order, processed, scan, ingest>>

\* lines 109-111
ticker_except ==
  /\ ticker.pc = "except"
  /\ ticker' = [ticker EXCEPT !.pc = "finally",
                              !.txn = IF ticker.conn = "none" THEN @ ELSE {},
                              !.rolled_back = ticker.conn # "none"]
  /\ UNCHANGED <<records, pc, df, bands, unit, order, processed, scan, ingest>>

\* lines 112-113, and the return
ticker_finally ==
  /\ ticker.pc = "finally"
  /\ ticker' = [ticker EXCEPT !.pc = "returned", !.txn = {},
                              !.conn = IF @ = "none" THEN "none" ELSE "closed"]
  /\ UNCHANGED <<records, pc, df, bands, unit, order, processed, scan, ingest>>

\* ------------------------------------------------------------------------
\* ingest_batch, lines 75-84

\* lines 76-82: one turn of the loop over batch_symbols
ingest_symbol ==
  /\ ingest.pc = "running"
  /\ ingest.i <= Len(Symbols)
  /\ LET r == ingest_daily(ingest.env[ingest.i])
     IN  ingest' = [ingest EXCEPT
           !.i = @ + 1,
           !.stored = IF r.stored THEN @ \cup {ingest.i} ELSE @,
           !.success_count = IF r.raised THEN @ ELSE @ + 1,
           !.failed = IF r.raised THEN @ \cup {ingest.i} ELSE @]
  /\ UNCHANGED <<records, pc, df, bands, unit, order, processed, scan, ticker>>

\* line 84
ingest_report ==
  /\ ingest.pc = "running"
  /\ ingest.i > Len(Symbols)
  /\ ingest' = [ingest EXCEPT !.pc = "done"]
  /\ UNCHANGED <<records, pc, df, bands, unit, order, processed, scan, ticker>>

Next ==
  \/ ticker_connect
  \/ ticker_fetch
  \/ ticker_calculate
  \/ ticker_upsert
  \/ ticker_commit
  \/ ticker_except
  \/ ticker_finally
  \/ ingest_symbol
  \/ ingest_report
  \/ \E c \in Calls :
       \/ begin_call(c)
       \/ stage_emas(c)
       \/ stage_bollinger_bands(c)
       \/ stage_rsi(c)
       \/ stage_supertrend(c)
       \/ stage_td_sequential(c)
       \/ stage_candle_metrics(c)
       \/ stage_distance_metrics(c)
       \/ stage_streaks(c)
       \/ calculate_indicators_return(c)
  \/ streak_call
  \/ scan_symbol
  \/ scan_return

Spec == Init /\ [][Next]_vars

\* ------------------------------------------------------------------------
\* Two invocations at once, one worker per symbol: call c is given the bars
\* of symbol c, and the stage steps of the two interleave in any order.
SymbolInputs ==
  { <<>>, FlatBars(<<10, 12, 11>>), FlatBars(<<10, 10, 18, 12, 10>>),
    FlatBars(<<10, 10, 10, 10, 11, 10>>) }

InitConcurrent ==
  /\ records \in SymbolInputs \X SymbolInputs
  /\ unit = NoUnit
  /\ scan = NoScan
  /\ ticker = NoTicker
  /\ ingest = NoIngest
  /\ pc = [c \in Calls |-> "idle"]
  /\ df = [c \in Calls |-> EmptyFrame]
  /\ bands = [c \in Calls |-> NoLocals]
  /\ order = <<>>
  /\ processed = [c \in Calls |-> NotReturned]

\* a call made whatever the other call is doing
begin_concurrent(c) == calculate_all_enter(c)

NextConcurrent ==
  \E c \in Calls :
    \/ begin_concurrent(c)
    \/ stage_emas(c)
    \/ stage_bollinger_bands(c)
    \/ stage_rsi(c)
    \/ stage_supertrend(c)
    \/ stage_td_sequential(c)
    \/ stage_candle_metrics(c)
    \/ stage_distance_metrics(c)
    \/ stage_streaks(c)
    \/ calculate_indicators_return(c)

SpecConcurrent == InitConcurrent /\ [][NextConcurrent]_vars
\* ------------------------------------------------------------------------
\* Supertrend (C1, C2, C3)

Close(c, i) == QOfInt(df[c]["close"][i])

\* C1: trend-flip rule.  For every bar after the first: if the supertrend of
\* the bar before equals that bar's upper band, the bar flips to an uptrend
\* (supertrend = lower band, direction = +1) exactly when its close is
\* strictly above its upper band, and stays in the downtrend otherwise; else
\* it flips to a downtrend (supertrend = upper band, direction = -1) exactly
\* when its close is strictly below its lower band, and stays up otherwise.
C1_TrendFlipRule ==
  \A c \in Calls :
    LET b   == bands[c]
        st  == df[c]["supertrend_7_3"]
        dir == df[c]["supertrend_direction"]
    IN  \A i \in 2..Len(b.supertrend) :
          IF QEq(st[i - 1], b.upper_band[i - 1])
          THEN IF QGt(Close(c, i), b.upper_band[i])
               THEN QEq(st[i], b.lower_band[i]) /\ dir[i] = 1
               ELSE QEq(st[i], b.upper_band[i]) /\ dir[i] = -1
          ELSE IF QLt(Close(c, i), b.lower_band[i])
               THEN QEq(st[i], b.upper_band[i]) /\ dir[i] = -1
               ELSE QEq(st[i], b.lower_band[i]) /\ dir[i] = 1

\* one batch in which a close equal to the upper band leaves the downtrend in
\* place, the trend flips up, a close equal to the lower band leaves the
\* uptrend in place, and the trend flips down
C1_Witness ==
  \E c \in Calls :
    LET b   == bands[c]
        dir == b.direction
        n   == Len(b.supertrend)
    IN  /\ pc[c] = "done"
        /\ \E i \in 2..n : /\ QEq(b.supertrend[i - 1], b.upper_band[i - 1])
                           /\ QEq(Close(c, i), b.upper_band[i])
                           /\ dir[i] = -1
        /\ \E i \in 2..n : dir[i - 1] = -1 /\ dir[i] = 1
        /\ \E i \in 2..n : /\ ~QEq(b.supertrend[i - 1], b.upper_band[i - 1])
                           /\ QEq(Close(c, i), b.lower_band[i])
                           /\ dir[i] = 1
        /\ \E i \in 2..n : dir[i - 1] = 1 /\ dir[i] = -1

\* C2: band persistence rule.  For every bar after the first the lower band is
\* the raw lower band if that is above the final lower band of the bar before
\* or the close of the bar before is below it, and the final lower band of the
\* bar before otherwise; the upper band symmetrically.
C2_BandPersistence ==
  \A c \in Calls :
    LET b == bands[c]
    IN  \A i \in 2..Len(b.supertrend) :
          /\ b.lower_band[i] =
               IF \/ QGt(b.lower_raw[i], b.lower_band[i - 1])
                  \/ QLt(Close(c, i - 1), b.lower_band[i - 1])
               THEN b.lower_raw[i] ELSE b.lower_band[i - 1]
          /\ b.upper_band[i] =
               IF \/ QLt(b.upper_raw[i], b.upper_band[i - 1])
                  \/ QGt(Close(c, i - 1), b.upper_band[i - 1])
               THEN b.upper_raw[i] ELSE b.upper_band[i - 1]

\* a bar whose raw lower band is above the raw band of the bar before but not
\* above the carried one: the band is carried again
C2_Witness ==
  \E c \in Calls :
    LET b == bands[c]
    IN  \E i \in 3..Len(b.supertrend) :
          /\ ~QEq(b.lower_band[i - 1], b.lower_raw[i - 1])
          /\ QGt(b.lower_raw[i], b.lower_raw[i - 1])
          /\ ~QLt(Close(c, i - 1), b.lower_raw[i - 1])
          /\ b.lower_band[i] = b.lower_band[i - 1]
          /\ ~QEq(b.lower_band[i], b.lower_raw[i])

\* C3: initial seed.  For every non-empty input the first bar has direction -1
\* and supertrend = upper band = (high + low)/2 + 3 * (high - low).
C3_InitialSeed ==
  \A c \in Calls :
    (pc[c] \in AfterSupertrend /\ records[c] # <<>>) =>
      LET h == df[c]["high"][1]
          l == df[c]["low"][1]
      IN  /\ df[c]["supertrend_direction"][1] = -1
          /\ df[c]["supertrend_7_3"][1] = bands[c].upper_band[1]
          /\ QEq(bands[c].upper_band[1],
                 [n |-> ZOfInt((h + l) + 2 * 3 * (h - l)), d |-> <<2>>])

\* a first bar with a range, closing at its low: supertrend 11 + 3 * 2 = 17
C3_Witness ==
  \E c \in Calls :
    /\ pc[c] = "done" /\ records[c] # <<>>
    /\ df[c]["high"][1] = 12 /\ df[c]["low"][1] = 10 /\ df[c]["close"][1] = 10
    /\ QEq(df[c]["supertrend_7_3"][1], QOfInt(17))
    /\ df[c]["supertrend_direction"][1] = -1

\* ------------------------------------------------------------------------
\* TD Sequential (C4, C5)

\* C4: transition rule.  From the fifth bar on, with prev the count of the bar
\* before: a close above the close four bars back gives min(prev+1, 13) if
\* prev > 0 and 1 otherwise; a close below it gives max(prev-1, -13) if
\* prev < 0 and -1 otherwise; an equal close gives 0.  Closes
\* 10,10,10,10,11,10 give the counts 1 and 0 on the last two bars.
C4_TdTransition ==
  \A c \in Calls :
    HasCol(df[c], "td_seq") =>
      LET td    == df[c]["td_seq"]
          close == df[c]["close"]
      IN  /\ \A i \in 5..Len(td) :
               LET prev == td[i - 1]
               IN  /\ close[i] > close[i - 4] =>
                         td[i] = IF prev > 0 THEN Min2(prev + 1, 13) ELSE 1
                   /\ close[i] < close[i - 4] =>
                         td[i] = IF prev < 0 THEN Max2(prev - 1, -13) ELSE -1
                   /\ close[i] = close[i - 4] => td[i] = 0
          /\ close = <<10, 10, 10, 10, 11, 10>> => td[5] = 1 /\ td[6] = 0

C4_Witness ==
  \E c \in Calls :
    /\ HasCol(df[c], "td_seq")
    /\ df[c]["close"] = <<10, 10, 10, 10, 11, 10>>
    /\ df[c]["td_seq"] = <<0, 0, 0, 0, 1, 0>>

\* C5: range.  Every count is in -13..13, the counts of the first four bars
\* are 0 (whatever the length), and a count of 13 (-13) stays 13 (-13) on a
\* further bar in the same direction.
C5_TdRange ==
  \A c \in Calls :
    HasCol(df[c], "td_seq") =>
      LET td    == df[c]["td_seq"]
          close == df[c]["close"]
      IN  /\ Len(td) = Len(close)
          /\ \A i \in 1..Len(td) :
               /\ td[i] \in -13..13
               /\ i <= 4 => td[i] = 0
               /\ (i > 4 /\ td[i - 1] = 13 /\ close[i] > close[i - 4]) => td[i] = 13
               /\ (i > 4 /\ td[i - 1] = -13 /\ close[i] < close[i - 4]) => td[i] = -13

C5_Witness ==
  \E c \in Calls :
    /\ HasCol(df[c], "td_seq")
    /\ \E i \in 5..Rows(df[c]) :
         /\ df[c]["td_seq"][i - 1] = 13
         /\ df[c]["close"][i] > df[c]["close"][i - 4]
         /\ df[c]["td_seq"][i] = 13
\* ------------------------------------------------------------------------
\* Streaks (C6, C7, C8)

StreakColumns ==
  { <<"bb_basis_20", "streak_bb_basis_20">>, <<"ema_36", "streak_ema_36">>,
    <<"ema_100", "streak_ema_100">>, <<"ema_200", "streak_ema_200">> }

\* every computed streak series of the state, with the closes and the
\* reference it was computed from
StreakRuns ==
  { [close |-> df[c]["close"], reference |-> df[c][p[1]], streaks |-> df[c][p[2]]] :
      c \in { b \in Calls : pc[b] = "done" /\ records[b] # <<>> }, p \in StreakColumns }
    \cup (IF unit.pc = "done"
          THEN {[close |-> unit.close, reference |-> unit.reference,
                 streaks |-> unit.streaks]}
          ELSE {})

Sign(k) == IF k > 0 THEN 1 ELSE IF k < 0 THEN -1 ELSE 0

\* C6: carry on tie.  At every bar after the first whose reference is defined
\* and equal to the close, the streak is the streak of the bar before.
C6_StreakCarryOnTie ==
  \A r \in StreakRuns :
    /\ Len(r.streaks) = Len(r.close)
    /\ \A i \in 2..Len(r.close) :
         (~IsNaN(r.reference[i]) /\ QEq(QOfInt(r.close[i]), r.reference[i]))
           => r.streaks[i] = r.streaks[i - 1]

\* a call of calculate_all in which a close meets its EMA 36 while a streak runs
C6_Witness ==
  \E c \in Calls :
    /\ pc[c] = "done" /\ records[c] # <<>>
    /\ \E i \in 2..Rows(df[c]) :
         /\ QEq(Close(c, i), df[c]["ema_36"][i])
         /\ df[c]["streak_ema_36"][i - 1] # 0
         /\ df[c]["streak_ema_36"][i] = df[c]["streak_ema_36"][i - 1]

\* C7: run length.  At a bar after the first whose reference is defined, a
\* close above it gives the streak of the bar before plus 1 if that is positive
\* and 1 otherwise, a close below it that streak minus 1 if it is negative and
\* -1 otherwise, with no clamp; the first bar gives 1, -1 or 0 as its close is
\* above, below or at its reference.
C7_StreakRunLength ==
  \A r \in StreakRuns :
    \A i \in 1..Len(r.close) :
      ~IsNaN(r.reference[i]) =>
        LET cmp  == QCmp(QOfInt(r.close[i]), r.reference[i])
            prev == IF i = 1 THEN 0 ELSE r.streaks[i - 1]
        IN  /\ (i = 1) => r.streaks[i] = Sign(cmp)
            /\ (i > 1 /\ cmp > 0) => r.streaks[i] = IF prev > 0 THEN prev + 1 ELSE 1
            /\ (i > 1 /\ cmp < 0) => r.streaks[i] = IF prev < 0 THEN prev - 1 ELSE -1

\* a streak that grows past 13
C7_Witness ==
  \E c \in Calls :
    /\ pc[c] = "done" /\ records[c] # <<>>
    /\ \E i \in 2..Rows(df[c]) :
         /\ df[c]["streak_ema_36"][i - 1] = 13
         /\ df[c]["streak_ema_36"][i] = 14

\* C8: reset on an undefined reference.  The streak is 0 at every bar whose
\* reference is undefined, so streak_bb_basis_20 is 0 on the first 19 bars; the
\* first bar with a defined reference, and every bar with a defined reference
\* after an undefined one, has the streak 1, -1 or 0 of its own comparison.
C8_StreakResetOnUndefined ==
  /\ \A r \in StreakRuns :
       \A i \in 1..Len(r.close) :
         /\ IsNaN(r.reference[i]) => r.streaks[i] = 0
         /\ (~IsNaN(r.reference[i]) /\ (i = 1 \/ IsNaN(r.reference[i - 1])))
              => r.streaks[i] = Sign(QCmp(QOfInt(r.close[i]), r.reference[i]))
  /\ \A c \in Calls :
       (pc[c] = "done" /\ records[c] # <<>>) =>
         \A i \in 1..Rows(df[c]) :
           i <= 19 => /\ IsNaN(df[c]["bb_basis_20"][i])
                      /\ df[c]["streak_bb_basis_20"][i] = 0

\* a batch of more than 20 bars: the streak against the basis is 0 on the
\* 19th bar, starts at 1 or -1 on the 20th and runs on, while the streak
\* against EMA 36 was running all along
C8_Witness ==
  \E c \in Calls :
    /\ pc[c] = "done" /\ Rows(df[c]) > 20
    /\ df[c]["streak_ema_36"][19] # 0
    /\ df[c]["streak_bb_basis_20"][19] = 0
    /\ df[c]["streak_bb_basis_20"][20] # 0
    /\ df[c]["streak_bb_basis_20"][21] = 2 * df[c]["streak_bb_basis_20"][20]

\* ------------------------------------------------------------------------
\* Input order and validation (C9, C10)

IndicatorColumns(d) == DOMAIN d \ RawColumns

\* C9: malformed input rejection.  A call given two bars of the same date
\* computes no indicator and returns no rows.
C9_MalformedInputRejected ==
  \A c \in Calls :
    ~DistinctDates(records[c]) =>
      /\ IndicatorColumns(df[c]) = {}
      /\ pc[c] = "done" => Rows(df[c]) = 0

IsReordering(r, q) == Len(r) = Len(q) /\ q \in Reorderings(r)
Ascending(ts) == \A i \in 2..Len(ts) : ts[i - 1] < ts[i]

\* C10: defensive sort.  A call given bars of pairwise distinct dates works on
\* the rows in ascending date order, and two calls given the same bars in
\* different orders return the same frame.
C10_DefensiveSort ==
  /\ \A c \in Calls :
       (pc[c] # "idle" /\ records[c] # <<>> /\ DistinctDates(records[c])) =>
         Ascending(df[c]["timestamp"])
  /\ (/\ pc[1] = "done" /\ pc[2] = "done"
      /\ DistinctDates(records[1])
      /\ IsReordering(records[1], records[2])) => df[1] = df[2]

\* two calls on the same three bars, of different closes: the first given
\* them in date order, the second in another order
C10_Witness ==
  /\ pc[1] = "done" /\ pc[2] = "done"
  /\ Len(records[1]) = 3 /\ DistinctDates(records[1])
  /\ IsReordering(records[1], records[2])
  /\ records[1] # records[2]
  /\ \E i \in 2..3 : df[1]["close"][i] # df[1]["close"][1]
  /\ ~Ascending([i \in 1..3 |-> records[2][i].timestamp])
  /\ df[1] = df[2]

\* ------------------------------------------------------------------------
\* Lengths and warm-up prefixes (C11, C12, C13, C14)

\* C11: length invariant.  From the sort on, the frame of a call holds one row
\* per bar it was given, in every column, and calculate_indicators returns one
\* record per bar; a call given no bars returns no rows.
C11_LengthInvariant ==
  \A c \in Calls :
    /\ pc[c] # "idle" =>
         /\ Rows(df[c]) = Len(records[c])
         /\ \A name \in DOMAIN df[c] : Len(df[c][name]) = Len(records[c])
    /\ processed[c].returned => Len(processed[c].rows) = Len(records[c])

\* a call on one bar, too short for every window, returned one record, and
\* the call after it, on no bars, returned none
C11_Witness ==
  /\ processed[1].returned /\ Len(records[1]) = 1 /\ Len(processed[1].rows) = 1
  /\ processed[2].returned /\ records[2] = <<>> /\ processed[2].rows = <<>>
  /\ pc[2] = "done" /\ Rows(df[2]) = 0

\* C12: RSI null prefix.  rsi_14 is null on each of the first 14 bars
\* (indices 0..13) of every frame.
C12_RsiNullPrefix ==
  \A c \in Calls :
    HasCol(df[c], "rsi_14") =>
      \A i \in 1..Min2(14, Rows(df[c])) : IsNaN(df[c]["rsi_14"][i])

\* C13: RSI saturation.  On every bar past the warm-up whose average loss is
\* 0, rsi_14 is 100, whatever the average gain, and never NaN.
C13_RsiSaturation ==
  \A c \in Calls :
    HasCol(df[c], "rsi_14") =>
      LET avg_loss == ewm_alpha_min_periods(Loss(df[c]["close"]), 14)
      IN  \A i \in 14..Rows(df[c]) :
            QEq(avg_loss[i], QOfInt(0)) => QEq(df[c]["rsi_14"][i], QOfInt(100))

BandDefined(b) == ~IsNaN(b.basis) /\ IsFinite(b.basis) /\ IsFinite(b.var)

\* C14 as claimed: pct_from_bb_basis_20 is null on exactly the bars where
\* the Bollinger columns are, the first 19.
C14_DistanceNullExactlyOnPrefix ==
  \A c \in Calls :
    HasCol(df[c], "pct_from_bb_basis_20") =>
      \A i \in 1..Rows(df[c]) : IsNaN(df[c]["pct_from_bb_basis_20"][i]) <=> i < 20

\* C14, amended: Bollinger null prefix.  bb_basis_20, bb_upper_20 and
\* bb_lower_20 are null on each of the first 19 bars and defined on every bar
\* from the 20th on; pct_from_bb_basis_20 is null on the first 19 bars, and on
\* a later bar it is null exactly when the basis is 0 and close equals it.
C14_BollingerNullPrefix ==
  \A c \in Calls :
    /\ HasCol(df[c], "bb_lower_20") =>
         \A i \in 1..Rows(df[c]) :
           IF i < 20
           THEN /\ IsNaN(df[c]["bb_basis_20"][i])
                /\ IsNaN(df[c]["bb_upper_20"][i].basis)
                /\ IsNaN(df[c]["bb_lower_20"][i].basis)
           ELSE /\ IsFinite(df[c]["bb_basis_20"][i])
                /\ BandDefined(df[c]["bb_upper_20"][i])
                /\ BandDefined(df[c]["bb_lower_20"][i])
    /\ HasCol(df[c], "pct_from_bb_basis_20") =>
         \A i \in 1..Rows(df[c]) :
           IsNaN(df[c]["pct_from_bb_basis_20"][i]) <=>
             \/ i < 20
             \/ /\ QEq(df[c]["bb_basis_20"][i], QOfInt(0))
                /\ QEq(Close(c, i), df[c]["bb_basis_20"][i])

\* a frame of 21 bars: no basis on the 19th, a basis, both bands and a
\* distance on the 20th and 21st
C14_Witness ==
  \E c \in Calls :
    /\ pc[c] = "done" /\ Rows(df[c]) = 21
    /\ IsNaN(df[c]["bb_basis_20"][19]) /\ IsNaN(df[c]["pct_from_bb_basis_20"][19])
    /\ \A i \in 20..21 :
         /\ QGt(df[c]["bb_basis_20"][i], QOfInt(0))
         /\ BandDefined(df[c]["bb_upper_20"][i])
         /\ IsFinite(df[c]["pct_from_bb_basis_20"][i])

\* ------------------------------------------------------------------------
\* EMA (C15)

Spans == {10, 36, 100, 200}
EmaColumn == [N \in Spans |-> CASE N = 10 -> "ema_10" [] N = 36 -> "ema_36"
                                [] N = 100 -> "ema_100" [] N = 200 -> "ema_200"]
Ratio(n, d) == [n |-> ZOfInt(n), d |-> NOfInt(d)]

\* C15: EMA recurrence.  For each span N, ema_N is close on the first bar and
\* (2 * close[i] + (N - 1) * ema_N[i-1]) / (N + 1) on every later bar, a finite
\* value on every bar; closes 10, 12, 11 give ema_10 = 10, 114/11, 1268/121.
\* Read off the finished frame of a call that is about to return it.
C15_EmaRecurrence ==
  \A c \in Calls :
    (pc[c] = "done" /\ ~processed[c].returned /\ HasCol(df[c], "ema_200")) =>
      /\ \A N \in Spans :
           LET ema == df[c][EmaColumn[N]]
           IN  \A i \in 1..Rows(df[c]) :
                 /\ IsFinite(ema[i])
                 /\ IF i = 1 THEN QEq(ema[1], Close(c, 1))
                    ELSE QEq(QMulInt(ema[i], N + 1),
                             QAdd(QMulInt(Close(c, i), 2), QMulInt(ema[i - 1], N - 1)))
      /\ df[c]["close"] = <<10, 12, 11>> =>
           /\ QEq(df[c]["ema_10"][1], QOfInt(10))
           /\ QEq(df[c]["ema_10"][2], Ratio(114, 11))
           /\ QEq(df[c]["ema_10"][3], Ratio(1268, 121))

\* the call on closes 10, 12, 11 returned, its third EMA 10 above the first
\* close and below the second
C15_Witness ==
  \E c \in Calls :
    /\ pc[c] = "done" /\ ~processed[c].returned
    /\ records[c] = FlatBars(<<10, 12, 11>>)
    /\ QEq(df[c]["ema_10"][3], Ratio(1268, 121))
    /\ QGt(df[c]["ema_200"][3], QOfInt(10)) /\ QLt(df[c]["ema_200"][3], df[c]["ema_10"][3])

\* ------------------------------------------------------------------------
\* The records handed to the sink (C16)

\* C16: non-finite substitution.  Every derived value of every record that
\* calculate_indicators returns is a finite number or null.
C16_NonFiniteSubstituted ==
  \A c \in Calls :
    processed[c].returned =>
      \A i \in 1..Len(processed[c].rows) :
        \A name \in FloatColumns :
          LET v == processed[c].rows[i][name]
          IN  v = None \/ IsFinite(v)

\* ------------------------------------------------------------------------
\* Calls and their state (C17, C18, C19)

C18_ConcurrentIndependence ==
  \A c \in Calls :
    /\ (pc[c] # "idle" /\ records[c] # <<>>) =>
         \A name \in RawColumns : df[c][name] = DataFrame(order[records[c]])[name]
    /\ pc[c] = "done" =>
         df[c] = IF records[c] = <<>> THEN EmptyFrame ELSE calculate_all(order[records[c]])
    /\ processed[c].returned =>
         processed[c].rows =
           IF records[c] = <<>> THEN <<>>
           ELSE to_dict(replace(calculate_all(order[records[c]])))

\* the first invocation has the frame it computes alone and has yet to
\* return while the second, on another batch, is part-way through its stages
C18_Witness ==
  /\ pc[1] = "done" /\ ~processed[1].returned
  /\ records[1] # <<>> /\ records[2] # <<>> /\ records[1] # records[2]
  /\ pc[2] = "td" /\ HasCol(df[2], "supertrend_7_3") /\ ~HasCol(df[2], "td_seq")
  /\ df[1] = calculate_all(records[1])

StageColumns ==
  [stage \in {"emas", "bollinger", "rsi", "supertrend", "td", "candle", "distance",
              "streaks"} |->
     CASE stage = "emas" -> {"ema_10", "ema_36", "ema_100", "ema_200"}
       [] stage = "bollinger" -> {"bb_basis_20", "bb_upper_20", "bb_lower_20"}
       [] stage = "rsi" -> {"rsi_14"}
       [] stage = "supertrend" -> {"supertrend_7_3", "supertrend_direction"}
       [] stage = "td" -> {"td_seq"}
       [] stage = "candle" -> {"pct_body_range", "pct_full_range"}
       [] stage = "distance" -> {"pct_from_ema_10", "pct_from_ema_36", "pct_from_ema_100",
                                 "pct_from_ema_200", "pct_from_bb_basis_20"}
       [] stage = "streaks" -> {"streak_bb_basis_20", "streak_ema_36", "streak_ema_100",
                                "streak_ema_200"}]

StageOrder ==
  <<"emas", "bollinger", "rsi", "supertrend", "td", "candle", "distance", "streaks", "done">>

StageAfter(stage) ==
  StageOrder[1 + CHOOSE k \in 1..(Len(StageOrder) - 1) : StageOrder[k] = stage]

\* C19: stage order and frame.  Every step of a call runs the stage after the
\* one before, in the order EMA, Bollinger, RSI, Supertrend, TD Sequential,
\* candle, distance, streak; the step adds the columns of its stage, none of
\* which the frame held, and leaves every column the frame held as it was;
\* the distance and streak stages start with the EMA and Bollinger columns in
\* the frame, and a returned frame changes no more.
C19_StageOrderAndFrame ==
  [][\A c \in Calls :
       /\ (pc[c] = "idle" /\ pc'[c] # "idle") =>
            \/ pc'[c] = "done" /\ records[c] = <<>>
            \/ pc'[c] = "emas" /\ DOMAIN df'[c] = RawColumns
       /\ (pc[c] \in DOMAIN StageColumns /\ pc'[c] # pc[c]) =>
            /\ pc'[c] = StageAfter(pc[c])
            /\ StageColumns[pc[c]] \cap DOMAIN df[c] = {}
            /\ DOMAIN df'[c] = DOMAIN df[c] \cup StageColumns[pc[c]]
            /\ \A name \in DOMAIN df[c] : df'[c][name] = df[c][name]
       /\ pc'[c] \in {"distance", "streaks"} =>
            (StageColumns["emas"] \cup StageColumns["bollinger"]) \subseteq DOMAIN df'[c]
       /\ (pc[c] \in DOMAIN StageColumns /\ pc'[c] = pc[c]) => df'[c] = df[c]
       /\ pc[c] = "done" => (pc'[c] = "done" /\ df'[c] = df[c])]_vars

\* a call on five bars returned a frame of the six raw columns, as the sort
\* left them, and the 22 columns of the eight stages
C19_Witness ==
  \E c \in Calls :
    /\ pc[c] = "done" /\ Len(records[c]) = 5
    /\ DOMAIN df[c] = RawColumns \cup UNION { StageColumns[st] : st \in DOMAIN StageColumns }
    /\ Cardinality(DOMAIN df[c]) = 28
    /\ \A name \in RawColumns : df[c][name] = DataFrame(order[records[c]])[name]

\* ------------------------------------------------------------------------
\* The scanner (C20)

\* C20: the scanner reads the latest rows.  For every symbol with stored
\* rows that the scan has reached, the rows passed to the strategy are the
\* last 60 stored, by timestamp, and the bar the strategy takes as current is
\* the newest stored.
C20_ScannerReadsLatest ==
  scan.pc # "none" =>
    \A k \in 1..(scan.i - 1) :
      LET asc == Ascend(scan.stored[k])
      IN  asc # <<>> =>
            /\ scan.passed[k] = SubSeq(asc, Max2(1, Len(asc) - 59), Len(asc))
            /\ scan.curr[k] # 0 => scan.curr[k] = asc[Len(asc)]

\* ------------------------------------------------------------------------
\* Streaks on a cross (C21)

\* C21: reset on cross.  At every bar after the first where the close crosses
\* the reference, the close of the bar before strictly on one side of its
\* reference and the close of the bar strictly on the other side of its own,
\* the streak of the bar is 0.
C21_StreakZeroOnCross ==
  \A r \in StreakRuns :
    \A i \in 2..Len(r.close) :
      (/\ ~IsNaN(r.reference[i - 1]) /\ ~IsNaN(r.reference[i])
       /\ QCmp(QOfInt(r.close[i - 1]), r.reference[i - 1])
            * QCmp(QOfInt(r.close[i]), r.reference[i]) = -1)
        => r.streaks[i] = 0

\* ------------------------------------------------------------------------
\* Supertrend state (C22, C23)

\* C22: state tracking.  In every bar the supertrend equals the upper band
\* exactly when the direction is -1 and equals the lower band exactly when the
\* direction is +1, so that the test of line 132 on the bar before selects
\* the downtrend branch exactly when the bar before was in a downtrend.
C22_SupertrendTracksDirection ==
  \A c \in Calls :
    LET b == bands[c]
    IN  \A i \in 1..Len(b.supertrend) :
          /\ QEq(b.supertrend[i], b.upper_band[i]) <=> b.direction[i] = -1
          /\ QEq(b.supertrend[i], b.lower_band[i]) <=> b.direction[i] = 1

Keys(rows) == { rows[k] : k \in 1..Len(rows) }

\* C24: all or nothing.  candles_d1 holds either what it held before the call
\* or that with every enriched row of the symbol upserted; the one commit
\* comes after the upsert of every row and without any exception before it;
\* once a step has raised, the handler leaves candles_d1 as it was, rolls the
\* transaction back if there is a connection, and the call returns; and a call
\* that has returned has closed the connection it obtained.
C24_AllOrNothing ==
  ticker.pc # "none" =>
    /\ ticker.candles \in {ticker.before, upsert(ticker.before, Keys(ticker.raw))}
    /\ ticker.commits <= 1
    /\ ticker.commits = 1 =>
         /\ ticker.raised = "no"
         /\ ticker.recs = ticker.raw /\ ticker.i = Len(ticker.raw) + 1
         /\ ticker.candles = upsert(ticker.before, Keys(ticker.raw))
    /\ ticker.raised # "no" =>
         /\ ticker.pc \in {"except", "finally", "returned"}
         /\ ticker.candles = ticker.before /\ ticker.commits = 0
         /\ ticker.pc # "except" =>
              /\ ticker.txn = {}
              /\ ticker.rolled_back <=> ticker.raised # "connect"
    /\ ticker.pc = "returned" =>
         /\ ticker.conn = IF ticker.raised = "connect" THEN "none" ELSE "closed"
         /\ ticker.txn = {}

\* a call whose second upsert raised after the first had replaced a stored
\* row in the transaction: it returned with candles_d1 as before, rolled back
\* and closed
C24_Witness ==
  /\ ticker.pc = "returned" /\ ticker.raised = "upsert" /\ ticker.i = 2
  /\ <<1, "old">> \in ticker.before
  /\ ticker.candles = ticker.before
  /\ ticker.rolled_back /\ ticker.conn = "closed"

\* ------------------------------------------------------------------------
\* ingest_batch (C25)

\* C25: success count.  The number ingest_batch reports is the number of
\* symbols of the batch whose records ingest_daily fetched, stored and
\* committed.
C25_SuccessCount ==
  ingest.pc = "done" => ingest.success_count = Cardinality(ingest.stored)

\* ------------------------------------------------------------------------
\* EMA streaks at the first bar (C26)

EmaStreaks ==
  { <<"ema_36", "streak_ema_36">>, <<"ema_100", "streak_ema_100">>,
    <<"ema_200", "streak_ema_200">> }

\* C26: EMA streaks start at zero.  For every non-empty input the first EMA
\* is the first close and the three EMA streaks are 0 on the first bar; the
\* streak of bar i (counted from 1) is at most i - 1 in absolute value; and
\* an EMA streak is 0 exactly on the bars up to which every close has equalled
\* its EMA.
C26_EmaStreakStartsAtZero ==
  \A c \in Calls :
    (pc[c] = "done" /\ ~processed[c].returned /\ records[c] # <<>>) =>
      \A p \in EmaStreaks :
        LET ema    == df[c][p[1]]
            streak == df[c][p[2]]
            tie(j) == QEq(Close(c, j), ema[j])
        IN  /\ tie(1) /\ streak[1] = 0
            /\ \A i \in 1..Rows(df[c]) :
                 /\ Abs(streak[i]) <= i - 1
                 /\ streak[i] = 0 <=> \A j \in 1..i : tie(j)

\* a call on closes that hold for two bars and then move: the streak is 0 on
\* both bars and then runs
C26_Witness ==
  \E c \in Calls :
    /\ pc[c] = "done" /\ ~processed[c].returned /\ Rows(df[c]) >= 4
    /\ df[c]["close"][2] = df[c]["close"][1]
    /\ df[c]["streak_ema_36"][2] = 0
    /\ Abs(df[c]["streak_ema_36"][3]) = 1
    /\ Abs(df[c]["streak_ema_36"][4]) = 2
====
